---------------------------- MODULE Spec2Model ----------------------------
(***************************************************************************)
(* Model of the msg555/mtg castability decider:                            *)
(*   adjustable_heap.py  index-tracking binary min-heap                    *)
(*   mtg.py              lower Moebius transform, Hall oracle, can_cast    *)
(* Colour bitsets are the integers 0..31, Counters are total functions     *)
(* from a key to an integer count (a missing key reads as 0), Python       *)
(* lists are 0-indexed in the source and stored here as 1-indexed          *)
(* sequences, so list position i is sequence position i + 1.               *)
(***************************************************************************)
EXTENDS Integers, Sequences, FiniteSets, TLC

VARIABLES
  o_cost,     \* oracle: cost Counter (colour bitset -> pip count)
  o_lands,    \* oracle: land Counter (colour bitset -> land count)
  o_offset,   \* oracle: the offset argument
  o_ans,      \* oracle: can_cast_simple(o_cost, o_lands, o_offset)
  hp,         \* AdjustableHeap object: the array and the key objects it holds
  h_op,       \* heap: last method called
  h_key,      \* heap: handle passed to / returned by the last method
  h_val,      \* heap: value passed to the last push / adjust_key
  h_ret,      \* heap: value returned by the last pop / peek
  c_spell,    \* can_cast: the spell argument (cost, types, subtypes)
  c_lands,    \* can_cast: the lands argument, a list of land cards
  c_X,        \* can_cast: the X argument
  c_pc,       \* can_cast: "start", "search" (at the while test) or "done"
  c_local,    \* can_cast: cost, simple_lands, other_lands, max_colors, ...
  c_queue,    \* can_cast: the AdjustableHeap of pending SearchStates
  c_visited,  \* can_cast: visited_states, as the set of identity tuples
  c_result,   \* can_cast: the value returned
  m_edges,    \* MinCostFlow: the Edge objects, in add_edge order
  m_potential,\* MinCostFlow: self.potential
  m_src,      \* add_flow: the src argument
  m_snk,      \* add_flow: the snk argument
  m_flow_max, \* add_flow: the flow_max argument
  m_flow,     \* add_flow: flow
  m_flow_cost,\* add_flow: flow_cost
  m_dist,     \* add_flow: dist of the last round of the outer loop
  m_pc        \* add_flow: "loop" (at the outer while test) or "done"

vars == <<o_cost, o_lands, o_offset, o_ans, hp, h_op, h_key, h_val, h_ret,
          c_spell, c_lands, c_X, c_pc, c_local, c_queue, c_visited, c_result,
          m_edges, m_potential, m_src, m_snk, m_flow_max, m_flow, m_flow_cost,
          m_dist, m_pc>>
oracleVars == <<o_cost, o_lands, o_offset, o_ans>>
heapVars == <<hp, h_op, h_key, h_val, h_ret>>
castVars == <<c_spell, c_lands, c_X, c_pc, c_local, c_queue, c_visited, c_result>>
mcfVars == <<m_edges, m_potential, m_src, m_snk, m_flow_max, m_flow, m_flow_cost,
             m_dist, m_pc>>

-----------------------------------------------------------------------------
(* Bounds of the explored inputs *)
MaxPips == 2       \* pips in an oracle cost
MaxLands == 2      \* lands in an oracle pool
MaxHeap == 6       \* elements held by the heap at once
MaxVal == 3        \* heap values are 0..MaxVal-1
MaxCastLands == 6  \* lands in a list given to can_cast
MaxX == 2          \* the value of X given to can_cast
MaxCap == 2        \* the capacity of an edge
MaxFlowMax == 3    \* the flow_max given to add_flow

-----------------------------------------------------------------------------
(* Python's None, where a value is absent *)
None == -1

(* mtg.py constants *)
NumColors == 5                       \* len(COLORS)
ALL_COLORS_SET == (2 ^ NumColors) - 1
ColorSets == 0..ALL_COLORS_SET

(* Bit operations on colour bitsets: a & b, a | b, a ^ b.  The table holds *)
(* a & b for every pair of bitsets, computed once bit by bit.              *)
RECURSIVE BitAndBits(_, _)
BitAndBits(a, b) ==
  IF a = 0 \/ b = 0 THEN 0
  ELSE ((a % 2) * (b % 2)) + 2 * BitAndBits(a \div 2, b \div 2)

BitAndTable == [a \in ColorSets |-> [b \in ColorSets |-> BitAndBits(a, b)]]
BitAnd(a, b) == BitAndTable[a][b]
BitOr(a, b) == a + b - BitAnd(a, b)


(* collections.Counter() *)
EmptyCounter == [s \in ColorSets |-> 0]
CounterAdd(cnt, s, n) == [cnt EXCEPT ![s] = @ + n]
RECURSIVE SumUpTo(_, _)
SumUpTo(cnt, s) == IF s < 0 THEN 0 ELSE cnt[s] + SumUpTo(cnt, s - 1)
CounterTotal(cnt) == SumUpTo(cnt, ALL_COLORS_SET)

-----------------------------------------------------------------------------
(* lower_mobius_transform, one round of the for loop: the while-True loop  *)
(* visits every subset st of iter_st (the sets without the bit col) once   *)
(* and adds result[st] to result[st | col].  It reads only entries without *)
(* col and writes only entries with col, so the round adds to every entry  *)
(* s holding col the entry s - col as it was when the round began.         *)
HasBit(s, col) == (s \div col) % 2 = 1

MobiusRound(result, col) ==
  [s \in ColorSets |->
     IF HasBit(s, col) THEN result[s] + result[s - col] ELSE result[s]]

(* the for loop over the colour indices index..NumColors-1 *)
RECURSIVE MobiusOuter(_, _)
MobiusOuter(result, index) ==
  IF index >= NumColors THEN result
  ELSE MobiusOuter(MobiusRound(result, 2 ^ index), index + 1)

lower_mobius_transform(freq) ==
  MobiusOuter([index \in ColorSets |-> freq[index]], 0)

(* can_cast_simple with the operands of the subtraction exchanged *)
can_cast_simple_swapped(cost, lands, offset) ==
  LET cost_g == lower_mobius_transform(cost)
      land_g == [lower_mobius_transform(lands) EXCEPT ![0] = 0]
      total_lands == land_g[ALL_COLORS_SET]
  IN \A s \in ColorSets :
       cost_g[s] + offset <= land_g[ALL_COLORS_SET - s] - total_lands

(* can_cast_simple: zip(cost_g, land_g[::-1]) pairs entry s of cost_g with *)
(* entry (len - 1) - s of land_g                                           *)
can_cast_simple(cost, lands, offset) ==
  LET cost_g == lower_mobius_transform(cost)
      land_g == [lower_mobius_transform(lands) EXCEPT ![0] = 0]
      total_lands == land_g[ALL_COLORS_SET]
  IN \A s \in ColorSets :
       cost_g[s] + offset <= total_lands - land_g[ALL_COLORS_SET - s]

-----------------------------------------------------------------------------
(* adjustable_heap.py.  A key object (AdjustableHeapKey) is named by an    *)
(* identifier; H.heap is the array of identifiers, H.obj maps each key     *)
(* object the array holds to its fields val, comp_key and index.  Keys are *)
(* compared as Python compares them: a comp_key is a tuple of integers     *)
(* ordered lexicographically, an integer k being the tuple <<k>>.          *)
RECURSIVE KeyLT(_, _)
KeyLT(a, b) ==
  IF a = <<>> THEN b # <<>>
  ELSE IF b = <<>> THEN FALSE
  ELSE IF Head(a) < Head(b) THEN TRUE
  ELSE IF Head(b) < Head(a) THEN FALSE
  ELSE KeyLT(Tail(a), Tail(b))

AdjustableHeap == [heap |-> <<>>, obj |-> <<>>]

AdjustableHeapKey(val, comp_key, index) ==
  [val |-> val, comp_key |-> comp_key, index |-> index]

HeapLen(H) == Len(H.heap)
CompKeyAt(H, ind) == H.obj[H.heap[ind + 1]].comp_key

(* _adjust, first loop: bubble key up from index *)
RECURSIVE BubbleUp(_, _, _)
BubbleUp(H, key, index) ==
  IF index > 0
  THEN LET parent_index == ((index + 1) \div 2) - 1
           parent == H.heap[parent_index + 1]
       IN IF ~KeyLT(H.obj[key].comp_key, H.obj[parent].comp_key)
          THEN [H |-> H, index |-> index]
          ELSE BubbleUp([heap |-> [H.heap EXCEPT ![index + 1] = parent],
                         obj |-> [H.obj EXCEPT ![parent].index = index]],
                        key, parent_index)
  ELSE [H |-> H, index |-> index]

(* _adjust, second loop: bubble key down from index; min() returns the     *)
(* first of the children with the least comp_key                           *)
RECURSIVE BubbleDown(_, _, _)
BubbleDown(H, key, index) ==
  IF 2 * index + 1 < Len(H.heap)
  THEN LET left == index * 2 + 1
           right == index * 2 + 2
           min_index == IF right < Len(H.heap)
                           /\ KeyLT(CompKeyAt(H, right), CompKeyAt(H, left))
                        THEN right ELSE left
           child == H.heap[min_index + 1]
       IN IF KeyLT(H.obj[key].comp_key, CompKeyAt(H, min_index))
          THEN [H |-> H, index |-> index]
          ELSE BubbleDown([heap |-> [H.heap EXCEPT ![index + 1] = child],
                           obj |-> [H.obj EXCEPT ![child].index = index]],
                          key, min_index)
  ELSE [H |-> H, index |-> index]

(* _adjust with the bubble-down loop left out *)
adjust_up_only(H, key) ==
  LET up == BubbleUp(H, key, H.obj[key].index)
  IN [heap |-> [up.H.heap EXCEPT ![up.index + 1] = key],
      obj |-> [up.H.obj EXCEPT ![key].index = up.index]]

(* _adjust *)
adjust(H, key) ==
  LET up == BubbleUp(H, key, H.obj[key].index)
      dn == BubbleDown(up.H, key, up.index)
  IN [heap |-> [dn.H.heap EXCEPT ![dn.index + 1] = key],
      obj |-> [dn.H.obj EXCEPT ![key].index = dn.index]]

(* a key object not referenced by the array *)
FreshKey(H) == CHOOSE k \in 1..(Len(H.heap) + 1) : k \notin DOMAIN H.obj

DropKey(H, key) == [k \in (DOMAIN H.obj) \ {key} |-> H.obj[k]]
ButLast(s) == SubSeq(s, 1, Len(s) - 1)

(* push; the returned handle is FreshKey(H) *)
push(H, val, comp_key) ==
  LET key == FreshKey(H)
      H1 == [heap |-> Append(H.heap, key),
             obj |-> [k \in (DOMAIN H.obj) \cup {key} |->
                        IF k = key
                        THEN AdjustableHeapKey(val, comp_key, Len(H.heap))
                        ELSE H.obj[k]]]
  IN adjust(H1, key)

(* peek, and the value pop returns *)
peek(H) == H.obj[H.heap[1]].val

(* pop that moves the last key to the root without sifting it *)
pop_nosift(H) ==
  IF Len(H.heap) = 1
  THEN [heap |-> <<>>, obj |-> <<>>]
  ELSE LET last == H.heap[Len(H.heap)]
           first == H.heap[1]
       IN [heap |-> [ButLast(H.heap) EXCEPT ![1] = last],
           obj |-> [DropKey(H, first) EXCEPT ![last].index = 0]]

(* pop: the heap after the call *)
pop(H) ==
  IF Len(H.heap) = 1
  THEN [heap |-> <<>>, obj |-> <<>>]
  ELSE LET last == H.heap[Len(H.heap)]
           first == H.heap[1]
           H1 == [heap |-> [ButLast(H.heap) EXCEPT ![1] = last],
                  obj |-> [DropKey(H, first) EXCEPT ![last].index = 0]]
       IN adjust(H1, last)

(* adjust_key that keeps the comp_key computed for the old value *)
adjust_key_stale(H, key, val, comp_key) ==
  adjust([H EXCEPT !.obj[key].val = val], key)

(* adjust_key *)
adjust_key(H, key, val, comp_key) ==
  adjust([H EXCEPT !.obj[key].val = val, !.obj[key].comp_key = comp_key], key)

(* remove that forgets to re-establish the order around the moved key *)
remove_noadjust(H, key) ==
  LET last_key == H.heap[Len(H.heap)]
  IN IF last_key = key
     THEN [heap |-> ButLast(H.heap), obj |-> DropKey(H, key)]
     ELSE [heap |-> [ButLast(H.heap) EXCEPT ![H.obj[key].index + 1] = last_key],
           obj |-> [DropKey(H, key) EXCEPT ![last_key].index = H.obj[key].index]]

(* remove *)
remove(H, key) ==
  LET last_key == H.heap[Len(H.heap)]
  IN IF last_key = key
     THEN [heap |-> ButLast(H.heap), obj |-> DropKey(H, key)]
     ELSE adjust([heap |-> [ButLast(H.heap) EXCEPT ![H.obj[key].index + 1] = last_key],
                  obj |-> [DropKey(H, key) EXCEPT ![last_key].index = H.obj[key].index]],
                 last_key)

(* __bool__: bool(self.heap), true when the array holds an element *)
heap_bool(H) == Len(H.heap) # 0

-----------------------------------------------------------------------------
(* mtg.py, can_cast.  A land card is a record of its name, land_type and   *)
(* color_identity_set; a spell is a record of its cost Counter, types and  *)
(* subtypes.  A tuple indexed by colour 0..4 is a sequence of length 5,    *)
(* colour c at position c + 1.                                             *)
Colors == 0..(NumColors - 1)
MARDU_COLOR_SET == (2 ^ 0) + (2 ^ 2) + (2 ^ 3)

SIMPLE_LAND_TYPES ==
  {"BASIC", "ADAMANT", "CASTLE", "SHOCK", "SCRY", "TAP_DUAL", "GUILDGATE",
   "TAP_TRI", "COLORLESS"}

(* X expansion that adds cost[0] generic pips whatever X is *)
ExpandX_once(cost, X) ==
  IF cost[0] # 0
  THEN [cost EXCEPT ![ALL_COLORS_SET] = @ + cost[0], ![0] = 0]
  ELSE cost

(* lines 141-144: the X slot cost[0] becomes cost[0] * X generic pips *)
ExpandX(cost, X) ==
  IF cost[0] # 0
  THEN [cost EXCEPT ![ALL_COLORS_SET] = @ + cost[0] * X, ![0] = 0]
  ELSE cost

(* BucketLand with the BEACON branch appending to other_lands whatever     *)
(* the spell's types                                                       *)
BucketLandBeaconExotic(spell, land, acc) ==
  IF land.land_type \in {"FABLED_PASSAGE", "EVOLVING_WILDS"} THEN acc
  ELSE IF land.land_type \in SIMPLE_LAND_TYPES
  THEN [acc EXCEPT
          !.gate_colors = IF land.land_type = "GUILDGATE"
                          THEN BitOr(@, land.color_identity_set) ELSE @,
          !.simple_lands = CounterAdd(@, land.color_identity_set, 1)]
  ELSE IF land.land_type = "GATEWAY_PLAZA"
  THEN [acc EXCEPT !.gate_colors = ALL_COLORS_SET,
                   !.simple_lands = CounterAdd(@, ALL_COLORS_SET, 1)]
  ELSE IF land.land_type = "COMMAND_TOWER"
  THEN [acc EXCEPT !.simple_lands = CounterAdd(@, ALL_COLORS_SET, 1)]
  ELSE IF land.land_type = "TOURNAMENT_GROUNDS"
  THEN IF "Equipment" \in spell.subtypes \/ "Knight" \in spell.subtypes
       THEN [acc EXCEPT !.simple_lands = CounterAdd(@, MARDU_COLOR_SET, 1)]
       ELSE [acc EXCEPT !.simple_lands = CounterAdd(@, 0, 1)]
  ELSE IF land.land_type = "PLAZA_OF_HARMONY"
  THEN [acc EXCEPT !.plaza_count = @ + 1]
  ELSE [acc EXCEPT !.other_lands = Append(@, land)]

(* lines 152-177: the body of the loop over lands *)
BucketLand(spell, land, acc) ==
  IF land.land_type \in {"FABLED_PASSAGE", "EVOLVING_WILDS"} THEN acc
  ELSE IF land.land_type \in SIMPLE_LAND_TYPES
  THEN [acc EXCEPT
          !.gate_colors = IF land.land_type = "GUILDGATE"
                          THEN BitOr(@, land.color_identity_set) ELSE @,
          !.simple_lands = CounterAdd(@, land.color_identity_set, 1)]
  ELSE IF land.land_type = "GATEWAY_PLAZA"
  THEN [acc EXCEPT !.gate_colors = ALL_COLORS_SET,
                   !.simple_lands = CounterAdd(@, ALL_COLORS_SET, 1)]
  ELSE IF land.land_type = "COMMAND_TOWER"
  THEN [acc EXCEPT !.simple_lands = CounterAdd(@, ALL_COLORS_SET, 1)]
  ELSE IF land.land_type = "TOURNAMENT_GROUNDS"
  THEN IF "Equipment" \in spell.subtypes \/ "Knight" \in spell.subtypes
       THEN [acc EXCEPT !.simple_lands = CounterAdd(@, MARDU_COLOR_SET, 1)]
       ELSE [acc EXCEPT !.simple_lands = CounterAdd(@, 0, 1)]
  ELSE IF land.land_type = "PLAZA_OF_HARMONY"
  THEN [acc EXCEPT !.plaza_count = @ + 1]
  ELSE IF land.land_type = "BEACON"
  THEN IF "Planeswalker" \in spell.types
       THEN [acc EXCEPT !.other_lands = Append(@, land)]
       ELSE [acc EXCEPT !.simple_lands = CounterAdd(@, 0, 1)]
  ELSE [acc EXCEPT !.other_lands = Append(@, land)]

(* lines 147-179: the loop over lands[i..], then the plaza lands *)
RECURSIVE BucketFrom(_, _, _, _)
BucketFrom(spell, lands, i, acc) ==
  IF i > Len(lands) THEN acc
  ELSE BucketFrom(spell, lands, i + 1, BucketLand(spell, lands[i], acc))

BucketLands(spell, lands) ==
  LET acc == BucketFrom(spell, lands, 1,
                        [simple_lands |-> EmptyCounter, other_lands |-> <<>>,
                         plaza_count |-> 0, gate_colors |-> 0])
  IN IF acc.plaza_count # 0
     THEN [acc EXCEPT !.simple_lands = CounterAdd(@, acc.gate_colors, acc.plaza_count)]
     ELSE acc

(* lines 196-207: the optimistic cost and pool *)
CountType(lands, t) == Cardinality({i \in DOMAIN lands : lands[i].land_type = t})

OptimisticCost(cost, other_lands) ==
  CounterAdd(cost, ALL_COLORS_SET, CountType(other_lands, "BEACON"))

(* the optimistic pool with one ALL-producer for a BEACON instead of two *)
OptimisticLands_beacon_one(simple_lands, other_lands) ==
  CounterAdd(simple_lands, ALL_COLORS_SET,
             CountType(other_lands, "BEACON")
             + 3 * CountType(other_lands, "LOTUS")
             + CountType(other_lands, "FILTERING"))

OptimisticLands(simple_lands, other_lands) ==
  CounterAdd(simple_lands, ALL_COLORS_SET,
             2 * CountType(other_lands, "BEACON")
             + 3 * CountType(other_lands, "LOTUS")
             + CountType(other_lands, "FILTERING"))

(* lines 212-216 *)
RECURSIVE SumSeq(_)
SumSeq(q) == IF q = <<>> THEN 0 ELSE Head(q) + SumSeq(Tail(q))

RECURSIVE ColorDemand(_, _, _)
ColorDemand(cost, color, s) ==
  IF s < 0 THEN 0
  ELSE (IF s # ALL_COLORS_SET /\ BitAnd(2 ^ color, s) # 0 THEN cost[s] ELSE 0)
       + ColorDemand(cost, color, s - 1)

MaxColors(cost) == [c \in 1..NumColors |-> ColorDemand(cost, c - 1, ALL_COLORS_SET)]
TotalCost(cost) == CounterTotal(cost)

(* line 272: other_lands.sort(key=lambda card: card.name), a stable sort.  *)
(* Names are ordered as Python orders these strings.                       *)
NameOrder ==
  <<"Guildmages' Forum", "Interplanar Beacon", "Lotus Field", "Unknown Shores">>
NameRank(name) == CHOOSE r \in DOMAIN NameOrder : NameOrder[r] = name

RECURSIVE InsertByName(_, _)
InsertByName(sorted, land) ==
  IF sorted = <<>> THEN <<land>>
  ELSE IF NameRank(land.name) < NameRank(sorted[Len(sorted)].name)
  THEN Append(InsertByName(ButLast(sorted), land), sorted[Len(sorted)])
  ELSE Append(sorted, land)

RECURSIVE SortByName(_)
SortByName(lands) ==
  IF lands = <<>> THEN <<>>
  ELSE InsertByName(SortByName(ButLast(lands)), lands[Len(lands)])

(* the locals of can_cast that the search reads *)
Locals(spell, lands, X) ==
  LET cost == ExpandX(spell.cost, X)
      acc == BucketLands(spell, lands)
  IN [cost |-> cost,
      simple_lands |-> acc.simple_lands,
      other_lands |-> SortByName(acc.other_lands),
      max_colors |-> MaxColors(cost),
      total_cost |-> TotalCost(cost),
      simple_land_count |-> CounterTotal(acc.simple_lands)]

Min2(a, b) == IF a < b THEN a ELSE b
Max2(a, b) == IF a > b THEN a ELSE b
ZeroTuple == [c \in 1..NumColors |-> 0]

(* SearchState.__init__, lines 219-238; the default None of colors and of   *)
(* filter_colors is passed as the empty tuple NoTuple                       *)
NoTuple == <<>>

(* SearchState.__init__ storing the tallies it is given, without the min() *)
(* of lines 223, 228 and 230                                              *)
SearchState_unclamped(loc, colors, filter_colors, total, filter_total, filter_cost, land_index) ==
  LET fc == IF filter_colors = NoTuple THEN ZeroTuple ELSE filter_colors
      cl == IF colors = NoTuple THEN ZeroTuple ELSE colors
      color_req == SumSeq(loc.max_colors) - SumSeq(fc) - SumSeq(cl)
      total_req == loc.total_cost - filter_total - total
  IN [colors |-> cl, filter_colors |-> fc, total |-> total,
      filter_total |-> filter_total,
      filter_cost |-> filter_cost, land_index |-> land_index,
      huer_dist |-> <<Max2(color_req, total_req) + land_index + filter_cost,
                      color_req, filter_total>>]

SearchState(loc, colors, filter_colors, total, filter_total, filter_cost, land_index) ==
  LET fc == IF filter_colors = NoTuple THEN ZeroTuple
            ELSE [c \in 1..NumColors |-> Min2(filter_colors[c], loc.max_colors[c])]
      cl == IF colors = NoTuple THEN ZeroTuple
            ELSE [c \in 1..NumColors |-> Min2(colors[c], loc.max_colors[c] - fc[c])]
      ft == Min2(filter_total, loc.total_cost)
      color_req == SumSeq(loc.max_colors) - SumSeq(fc) - SumSeq(cl)
      total_req == loc.total_cost - ft - total
  IN [colors |-> cl, filter_colors |-> fc, total |-> total, filter_total |-> ft,
      filter_cost |-> filter_cost, land_index |-> land_index,
      huer_dist |-> <<Max2(color_req, total_req) + land_index + filter_cost,
                      color_req, ft>>]

(* SearchState.add, lines 240-260; cols is the tuple *cols, land_weight 1  *)
CountOf(cols, color) == Cardinality({i \in DOMAIN cols : cols[i] = color})

(* SearchState.add counting only the colorless mana in the totals, without *)
(* len(cols) of line 242                                                   *)
add_colorless_only(loc, self, cols, is_filtered, colorless, filter_cost) ==
  LET normal_cols == IF is_filtered THEN <<>> ELSE cols
      filter_cols == IF is_filtered THEN cols ELSE <<>>
      normal_total == IF is_filtered THEN 0 ELSE colorless
      filter_total == IF is_filtered THEN colorless ELSE 0
  IN SearchState(loc,
       [c \in 1..NumColors |-> self.colors[c] + CountOf(normal_cols, c - 1)],
       [c \in 1..NumColors |-> self.filter_colors[c] + CountOf(filter_cols, c - 1)],
       self.total + normal_total,
       self.filter_total + filter_total,
       self.filter_cost + filter_cost,
       self.land_index + 1)

add(loc, self, cols, is_filtered, colorless, filter_cost) ==
  LET normal_cols == IF is_filtered THEN <<>> ELSE cols
      filter_cols == IF is_filtered THEN cols ELSE <<>>
      normal_total == IF is_filtered THEN 0 ELSE Len(cols) + colorless
      filter_total == IF is_filtered THEN Len(cols) + colorless ELSE 0
  IN SearchState(loc,
       [c \in 1..NumColors |-> self.colors[c] + CountOf(normal_cols, c - 1)],
       [c \in 1..NumColors |-> self.filter_colors[c] + CountOf(filter_cols, c - 1)],
       self.total + normal_total,
       self.filter_total + filter_total,
       self.filter_cost + filter_cost,
       self.land_index + 1)

(* SearchState._ident without the two colour tallies *)
ident_coarse(self) ==
  <<self.land_index, self.total, self.filter_total, self.filter_cost>>

(* SearchState._ident *)
ident(self) ==
  <<self.land_index, self.total, self.filter_total, self.filter_cost,
    self.colors, self.filter_colors>>

(* _try_queue without the test of line 278: every state is pushed *)
try_queue_always(S, state) ==
  [visited |-> S.visited \cup {ident(state)},
   queue |-> push(S.queue, state, state.huer_dist)]

(* _try_queue, lines 277-281, on the pair of visited_states and queue *)
try_queue(S, state) ==
  IF ident(state) \in S.visited THEN S
  ELSE [visited |-> S.visited \cup {ident(state)},
        queue |-> push(S.queue, state, state.huer_dist)]

RECURSIVE TryQueueAll(_, _, _)
TryQueueAll(S, states, i) ==
  IF i > Len(states) THEN S
  ELSE TryQueueAll(try_queue(S, states[i]), states, i + 1)

(* lines 315-316: the pairs (color_a, color_b), color_b < color_a, in the  *)
(* order the two for loops visit them                                      *)
RECURSIVE PairsFrom(_, _)
PairsFrom(color_a, color_b) ==
  IF color_a >= NumColors THEN <<>>
  ELSE IF color_b >= color_a THEN PairsFrom(color_a + 1, 0)
  ELSE <<<<color_a, color_b>>>> \o PairsFrom(color_a, color_b + 1)

BeaconPairs == PairsFrom(0, 0)

(* lines 311-324: the states offered to _try_queue, in order *)
Adjacent(loc, state) ==
  LET land == loc.other_lands[state.land_index + 1]
  IN IF land.land_type = "BEACON"
     THEN <<add(loc, state, <<>>, FALSE, 1, 0)>>
          \o [i \in 1..Len(BeaconPairs) |->
                add(loc, state, BeaconPairs[i], TRUE, 0, 1)]
     ELSE IF land.land_type = "LOTUS"
     THEN [c \in 1..NumColors |->
             add(loc, state, <<c - 1, c - 1, c - 1>>, FALSE, 0, 0)]
     ELSE IF land.land_type = "FILTERING"
     THEN <<add(loc, state, <<>>, FALSE, 1, 0)>>
          \o [c \in 1..NumColors |-> add(loc, state, <<c - 1>>, FALSE, 0, 1)]
     ELSE <<>>

(* lines 288-297: the pools built from a popped state *)
RECURSIVE AddSingles(_, _, _)
AddSingles(cnt, amounts, c) ==
  IF c > NumColors THEN cnt
  ELSE AddSingles(CounterAdd(cnt, 2 ^ (c - 1), amounts[c]), amounts, c + 1)

StateLands(loc, state) ==
  LET both == [c \in 1..NumColors |-> state.colors[c] + state.filter_colors[c]]
      colored_mana == SumSeq(both)
  IN CounterAdd(AddSingles(loc.simple_lands, both, 1), 0,
                state.filter_total + state.total - colored_mana)

StateFilterLands(loc, state) ==
  LET colored_filter_mana == SumSeq(state.filter_colors)
  IN CounterAdd(AddSingles(EmptyCounter, state.filter_colors, 1), 0,
                state.filter_total - colored_filter_mana)

(* lines 302-303: the test of a popped state *)
Solves(loc, state) ==
  /\ can_cast_simple(loc.cost, StateLands(loc, state), 0)
  /\ can_cast_simple(loc.cost, StateFilterLands(loc, state),
                     state.filter_cost - loc.simple_land_count - state.total)

(* can_cast up to the while loop, lines 139-283 *)
Preprocess ==
  /\ c_pc = "start"
  /\ LET loc == Locals(c_spell, c_lands, c_X)
     IN /\ c_local' = loc
        /\ IF can_cast_simple(loc.cost, loc.simple_lands, 0)
           THEN /\ c_result' = TRUE /\ c_pc' = "done"
                /\ UNCHANGED <<c_queue, c_visited>>
           ELSE IF loc.other_lands = <<>>
           THEN /\ c_result' = FALSE /\ c_pc' = "done"
                /\ UNCHANGED <<c_queue, c_visited>>
           ELSE IF ~can_cast_simple(OptimisticCost(loc.cost, loc.other_lands),
                                    OptimisticLands(loc.simple_lands, loc.other_lands), 0)
           THEN /\ c_result' = FALSE /\ c_pc' = "done"
                /\ UNCHANGED <<c_queue, c_visited>>
           ELSE LET S == try_queue([visited |-> {}, queue |-> AdjustableHeap],
                                   SearchState(loc, NoTuple, NoTuple, 0, 0, 0, 0))
                IN /\ c_queue' = S.queue
                   /\ c_visited' = S.visited
                   /\ c_pc' = "search"
                   /\ UNCHANGED c_result
  /\ UNCHANGED <<c_spell, c_lands, c_X, oracleVars, heapVars, mcfVars>>

(* one round of the while loop, lines 284-324 *)
SearchStep ==
  /\ c_pc = "search"
  /\ heap_bool(c_queue)
  /\ LET state == peek(c_queue)
         popped == pop(c_queue)
     IN IF Solves(c_local, state)
        THEN /\ c_result' = TRUE /\ c_pc' = "done"
             /\ c_queue' = popped
             /\ UNCHANGED c_visited
        ELSE IF state.land_index = Len(c_local.other_lands)
        THEN /\ c_queue' = popped
             /\ UNCHANGED <<c_visited, c_result, c_pc>>
        ELSE LET S == TryQueueAll([visited |-> c_visited, queue |-> popped],
                                  Adjacent(c_local, state), 1)
             IN /\ c_queue' = S.queue
                /\ c_visited' = S.visited
                /\ UNCHANGED <<c_result, c_pc>>
  /\ UNCHANGED <<c_spell, c_lands, c_X, c_local, oracleVars, heapVars, mcfVars>>

(* the while test fails, line 326 *)
Exhausted ==
  /\ c_pc = "search"
  /\ ~heap_bool(c_queue)
  /\ c_result' = FALSE /\ c_pc' = "done"
  /\ UNCHANGED <<c_spell, c_lands, c_X, c_local, c_queue, c_visited,
                 oracleVars, heapVars, mcfVars>>

-----------------------------------------------------------------------------
(* mcf.py.  An Edge is a record of u, v, flow, capacity and cost; the      *)
(* graph is the sequence of its Edge objects in add_edge order, an Edge    *)
(* being named by its position.  potential is a Counter over the vertices. *)
Vertices == {"src", "a", "b", "snk"}

Edge(u, v, capacity, cost) ==
  [u |-> u, v |-> v, flow |-> 0, capacity |-> capacity, cost |-> cost]

(* Edge.directed_edge: the tuple (v, capacity, cost) seen from u *)
directed_edge(self, u) ==
  IF self.u = u
  THEN <<self.v, self.capacity - self.flow, self.cost>>
  ELSE <<self.u, self.flow, 0 - self.cost>>

(* Edge.add_flow with both branches adding the flow *)
edge_add_flow_forward(self, u, flow) ==
  [self EXCEPT !.flow = @ + flow]

(* Edge.add_flow moving one unit whatever the amount *)
edge_add_flow_unit(self, u, flow) ==
  IF self.u = u
  THEN [self EXCEPT !.flow = @ + 1]
  ELSE [self EXCEPT !.flow = @ - 1]

(* Edge.add_flow *)
edge_add_flow(self, u, flow) ==
  IF self.u = u
  THEN [self EXCEPT !.flow = @ + flow]
  ELSE [self EXCEPT !.flow = @ - flow]

(* self.edges[u]: add_edge appends the edge to edges[u] and to edges[v] *)
RECURSIVE AdjFrom(_, _, _)
AdjFrom(edges, u, i) ==
  IF i > Len(edges) THEN <<>>
  ELSE (IF edges[i].u = u THEN <<i>> ELSE <<>>)
       \o (IF edges[i].v = u THEN <<i>> ELSE <<>>)
       \o AdjFrom(edges, u, i + 1)

Adj(edges, u) == AdjFrom(edges, u, 1)

(* dist[v] = (new_dist, edge, new_flow, heap key) *)
DistEntry(new_dist, edge, new_flow, heap_key) ==
  [dist |-> new_dist, edge |-> edge, flow |-> new_flow, key |-> heap_key]

SetDist(dist, v, entry) ==
  [x \in (DOMAIN dist) \cup {v} |-> IF x = v THEN entry ELSE dist[x]]

(* lines 59-82: one edge of self.edges[u], for the popped (u, dst, flow_cur); *)
(* D holds the heap and dist                                               *)
RelaxEdge(D, edges, potential, u, dst, flow_cur, e) ==
  LET de == directed_edge(edges[e], u)
      v == de[1]
      cap == de[2]
      cost == de[3]
      new_dist == dst + cost + potential[u] - potential[v]
      new_flow == IF flow_cur = None THEN cap ELSE Min2(flow_cur, cap)
  IN IF cap = 0 THEN D
     ELSE IF v \notin DOMAIN D.dist
     THEN [heap |-> push(D.heap, <<v, new_dist, new_flow>>, <<new_dist>>),
           dist |-> SetDist(D.dist, v,
                            DistEntry(new_dist, e, new_flow, FreshKey(D.heap)))]
     ELSE IF new_dist < D.dist[v].dist
     THEN [heap |-> adjust_key(D.heap, D.dist[v].key,
                               <<v, new_dist, new_flow>>, <<new_dist>>),
           dist |-> SetDist(D.dist, v,
                            DistEntry(new_dist, e, new_flow, D.dist[v].key))]
     ELSE D

(* line 58: for edge in self.edges[u].  The heap and dist left by one edge  *)
(* are bound to d before the next edge reads them, as the statements of    *)
(* the loop body run one after the other.                                  *)
RECURSIVE RelaxFrom(_, _, _, _, _, _, _, _)
RelaxFrom(D, edges, potential, u, dst, flow_cur, adj, i) ==
  IF i > Len(adj) THEN D
  ELSE CHOOSE r \in
         {RelaxFrom(d, edges, potential, u, dst, flow_cur, adj, i + 1) :
            d \in {RelaxEdge(D, edges, potential, u, dst, flow_cur, adj[i])}} : TRUE

(* lines 55-82: while len(heap); val is the popped (u, dst, flow_cur), d1   *)
(* the heap and dist after the pop, d after the edges of u                 *)
RECURSIVE SearchLoop(_, _, _)
SearchLoop(D, edges, potential) ==
  IF HeapLen(D.heap) = 0 THEN D
  ELSE CHOOSE r \in
         {SearchLoop(d, edges, potential) :
            d \in {RelaxFrom(d1, edges, potential, val[1], val[2], val[3],
                             Adj(edges, val[1]), 1) :
                     val \in {peek(D.heap)},
                     d1 \in {[D EXCEPT !.heap = pop(D.heap)]}}} : TRUE

(* the dist of a round whose source entry carries no cap on the flow *)
ShortestPaths_uncapped(edges, potential, src, flow, flow_max) ==
  LET start == <<src, 0, None>>
      D0 == [heap |-> push(AdjustableHeap, start, <<0>>),
             dist |-> SetDist(<<>>, src,
                              DistEntry(0, None, flow, FreshKey(AdjustableHeap)))]
  IN SearchLoop(D0, edges, potential).dist

(* lines 50-82: the dist built by one round of the outer loop *)
ShortestPaths(edges, potential, src, flow, flow_max) ==
  LET start == <<src, 0, IF flow_max = None THEN None ELSE flow_max - flow>>
      D0 == [heap |-> push(AdjustableHeap, start, <<0>>),
             dist |-> SetDist(<<>>, src,
                              DistEntry(0, None, flow, FreshKey(AdjustableHeap)))]
  IN (CHOOSE r \in {SearchLoop(d, edges, potential) : d \in {D0}} : TRUE).dist

(* lines 93-100: the walk from v back along the edges stored in dist *)
RECURSIVE WalkBack(_, _, _, _)
WalkBack(edges, dist, v, amount) ==
  LET e == dist[v].edge
  IN IF e = None THEN edges
     ELSE LET prev == directed_edge(edges[e], v)[1]
          IN CHOOSE r \in
               {WalkBack(es, dist, prev, amount) :
                  es \in {[edges EXCEPT ![e] = edge_add_flow(edges[e], prev, amount)]}} : TRUE

(* lines 90-91 left out: the potentials stay as they were *)
UpdatePotential_skipped(potential, dist) == potential

(* lines 90-91 *)
UpdatePotential(potential, dist) ==
  [v \in Vertices |->
     IF v \in DOMAIN dist THEN potential[v] + dist[v].dist ELSE potential[v]]

(* add_flow as a function of the MinCostFlow and its arguments: the pair    *)
(* (flow, flow_cost) it returns, from the locals flow and flow_cost        *)
RECURSIVE add_flow_from(_, _, _, _, _, _, _)
add_flow_from(edges, potential, src, snk, flow_max, flow, flow_cost) ==
  IF ~(flow_max = None \/ flow < flow_max) THEN <<flow, flow_cost>>
  ELSE LET dist == ShortestPaths(edges, potential, src, flow, flow_max)
       IN IF snk \notin DOMAIN dist THEN <<flow, flow_cost>>
          ELSE add_flow_from(WalkBack(edges, dist, snk, dist[snk].flow),
                             UpdatePotential(potential, dist), src, snk, flow_max,
                             flow + dist[snk].flow,
                             flow_cost + dist[snk].dist + potential[snk])

add_flow(edges, potential, src, snk, flow_max) ==
  add_flow_from(edges, potential, src, snk, flow_max, 0, 0)

(* line 49: the test of the outer while *)
LoopTest == m_flow_max = None \/ m_flow < m_flow_max

(* lines 49-100: a round of the outer loop that finds the sink *)
Augment ==
  /\ m_pc = "loop"
  /\ LoopTest
  /\ \E dist \in {ShortestPaths(m_edges, m_potential, m_src, m_flow, m_flow_max)} :
        /\ m_snk \in DOMAIN dist
        /\ m_flow' = m_flow + dist[m_snk].flow
        /\ m_flow_cost' = m_flow_cost + dist[m_snk].dist + m_potential[m_snk]
        /\ m_potential' = UpdatePotential(m_potential, dist)
        /\ m_edges' = WalkBack(m_edges, dist, m_snk, dist[m_snk].flow)
        /\ m_dist' = dist
  /\ UNCHANGED <<m_src, m_snk, m_flow_max, m_pc, oracleVars, heapVars, castVars>>

(* lines 49-86: a round of the outer loop that does not find the sink *)
SinkUnreachable ==
  /\ m_pc = "loop"
  /\ LoopTest
  /\ \E dist \in {ShortestPaths(m_edges, m_potential, m_src, m_flow, m_flow_max)} :
        /\ m_snk \notin DOMAIN dist
        /\ m_dist' = dist
  /\ m_pc' = "done"
  /\ UNCHANGED <<m_edges, m_potential, m_src, m_snk, m_flow_max, m_flow,
                 m_flow_cost, oracleVars, heapVars, castVars>>

(* lines 49, 102: the while test fails *)
CapReached ==
  /\ m_pc = "loop"
  /\ ~LoopTest
  /\ m_pc' = "done"
  /\ UNCHANGED <<m_edges, m_potential, m_src, m_snk, m_flow_max, m_flow,
                 m_flow_cost, m_dist, oracleVars, heapVars, castVars>>

-----------------------------------------------------------------------------
(* Values of the variables a specification does not use *)
OracleIdle ==
  /\ o_cost = EmptyCounter /\ o_lands = EmptyCounter /\ o_offset = 0
  /\ o_ans = TRUE

HeapIdle ==
  /\ hp = AdjustableHeap /\ h_op = "init" /\ h_key = 0
  /\ h_val = None /\ h_ret = None

McfIdle ==
  /\ m_edges = <<>> /\ m_potential = [v \in Vertices |-> 0]
  /\ m_src = "src" /\ m_snk = "snk" /\ m_flow_max = None
  /\ m_flow = 0 /\ m_flow_cost = 0 /\ m_dist = <<>> /\ m_pc = "idle"

CastIdle ==
  /\ c_spell = None /\ c_lands = <<>> /\ c_X = 0 /\ c_pc = "idle"
  /\ c_local = None /\ c_queue = AdjustableHeap /\ c_visited = {}
  /\ c_result = None

-----------------------------------------------------------------------------
(* Oracle specification: the cost and the land pool grow one pip or one    *)
(* land at a time and can_cast_simple is applied to every pair reached.    *)
PipSets == {0, 1, 3, 12, 30, 31}
LandSets == {0, 1, 3, 24, 31}
Offsets == {-1, 0, 1}

OracleInit ==
  /\ o_cost = EmptyCounter
  /\ o_lands = EmptyCounter
  /\ o_offset \in Offsets
  /\ o_ans = can_cast_simple(o_cost, o_lands, o_offset)
  /\ HeapIdle /\ CastIdle /\ McfIdle

AddPip(s) ==
  /\ CounterTotal(o_cost) < MaxPips
  /\ o_cost' = CounterAdd(o_cost, s, 1)
  /\ o_ans' = can_cast_simple(o_cost', o_lands, o_offset)
  /\ UNCHANGED <<o_lands, o_offset, heapVars, castVars, mcfVars>>

AddLand(s) ==
  /\ CounterTotal(o_lands) < MaxLands
  /\ o_lands' = CounterAdd(o_lands, s, 1)
  /\ o_ans' = can_cast_simple(o_cost, o_lands', o_offset)
  /\ UNCHANGED <<o_cost, o_offset, heapVars, castVars, mcfVars>>

OracleNext ==
  \/ \E s \in PipSets : AddPip(s)
  \/ \E s \in LandSets : AddLand(s)

SpecOracle == OracleInit /\ [][OracleNext]_vars

-----------------------------------------------------------------------------
(* Heap specification: any sequence of push, pop, peek, adjust_key and     *)
(* remove on one AdjustableHeap built without a key_func, so that the      *)
(* comp_key of a value is the value itself.  Key objects have no name in   *)
(* the program; hp names them as the last call left them, and every call   *)
(* is made on Renamed(hp), the same heap with the object at array position *)
(* i named i + 1, which keeps one representative of the heaps that differ  *)
(* only in the names of their key objects.                                 *)
HeapVals == 0..(MaxVal - 1)
key_func(val) == <<val>>

Renamed(H) ==
  [heap |-> [i \in 1..Len(H.heap) |-> i],
   obj |-> [i \in 1..Len(H.heap) |-> H.obj[H.heap[i]]]]

Cur == Renamed(hp)
LiveKeys == DOMAIN Cur.obj

HeapInit ==
  /\ hp = AdjustableHeap /\ h_op = "init" /\ h_key = 0
  /\ h_val = None /\ h_ret = None
  /\ OracleIdle /\ CastIdle /\ McfIdle

Push(v) ==
  /\ HeapLen(hp) < MaxHeap
  /\ hp' = push(Cur, v, key_func(v))
  /\ h_op' = "push" /\ h_key' = FreshKey(Cur) /\ h_val' = v /\ h_ret' = None
  /\ UNCHANGED <<oracleVars, castVars, mcfVars>>

Pop ==
  /\ HeapLen(hp) > 0
  /\ h_ret' = peek(Cur)
  /\ hp' = pop(Cur)
  /\ h_op' = "pop" /\ h_key' = 0 /\ h_val' = None
  /\ UNCHANGED <<oracleVars, castVars, mcfVars>>

Peek ==
  /\ HeapLen(hp) > 0
  /\ h_ret' = peek(Cur)
  /\ hp' = Cur
  /\ h_op' = "peek" /\ h_key' = 0 /\ h_val' = None
  /\ UNCHANGED <<oracleVars, castVars, mcfVars>>

Bool ==
  /\ h_ret' = heap_bool(Cur)
  /\ hp' = Cur
  /\ h_op' = "bool" /\ h_key' = 0 /\ h_val' = None
  /\ UNCHANGED <<oracleVars, castVars, mcfVars>>

AdjustKey(key, v) ==
  /\ key \in LiveKeys
  /\ hp' = adjust_key(Cur, key, v, key_func(v))
  /\ h_op' = "adjust_key" /\ h_key' = key /\ h_val' = v /\ h_ret' = None
  /\ UNCHANGED <<oracleVars, castVars, mcfVars>>

Remove(key) ==
  /\ key \in LiveKeys
  /\ hp' = remove(Cur, key)
  /\ h_op' = "remove" /\ h_key' = key /\ h_val' = None /\ h_ret' = None
  /\ UNCHANGED <<oracleVars, castVars, mcfVars>>

HeapNext ==
  \/ \E v \in HeapVals : Push(v)
  \/ Pop
  \/ Peek
  \/ Bool
  \/ \E key \in LiveKeys, v \in HeapVals : AdjustKey(key, v)
  \/ \E key \in LiveKeys : Remove(key)

SpecHeap == HeapInit /\ [][HeapNext]_vars

-----------------------------------------------------------------------------
(* Cast specification: can_cast is called on a spell, a land list and X,   *)
(* runs its preprocessing and then its search loop one round at a time.    *)
Land(name, land_type, color_identity_set) ==
  [name |-> name, land_type |-> land_type,
   color_identity_set |-> color_identity_set]
Spell(cost, types, subtypes) ==
  [cost |-> cost, types |-> types, subtypes |-> subtypes]

RECURSIVE CostOf(_)
CostOf(pips) ==
  IF pips = <<>> THEN EmptyCounter ELSE CounterAdd(CostOf(Tail(pips)), Head(pips), 1)

W == 1
U == 2
B == 4
R == 8
G == 16

Beacon == Land("Interplanar Beacon", "BEACON", 0)
LotusField == Land("Lotus Field", "LOTUS", 0)
UnknownShores == Land("Unknown Shores", "FILTERING", 0)
BlastZone == Land("Blast Zone", "COLORLESS", 0)
Mountain == Land("Mountain", "BASIC", R)
Island == Land("Island", "BASIC", U)
Swamp == Land("Swamp", "BASIC", B)
Forest == Land("Forest", "BASIC", G)
IzzetGuildgate == Land("Izzet Guildgate", "GUILDGATE", U + R)
GatewayPlaza == Land("Gateway Plaza", "GATEWAY_PLAZA", 0)
PlazaOfHarmony == Land("Plaza of Harmony", "PLAZA_OF_HARMONY", 0)
TournamentGrounds == Land("Tournament Grounds", "TOURNAMENT_GROUNDS", W + B + R)
CommandTower == Land("Command Tower", "COMMAND_TOWER", 0)
FabledPassage == Land("Fabled Passage", "FABLED_PASSAGE", 0)

(* Nicol Bolas, Dragon-God, {U}{B}{B}{R} *)
Bolas == Spell(CostOf(<<U, B, B, R>>), {"Legendary", "Planeswalker"}, {"Bolas"})
(* a Planeswalker of cost {W}{W/U}{U/B/R/G} *)
HybridWalker == Spell(CostOf(<<W, W + U, U + B + R + G>>), {"Planeswalker"}, {})
(* creatures of cost {R}{R}{R}, {X}{R} and {W}{B} *)
TripleRed == Spell(CostOf(<<R, R, R>>), {"Creature"}, {"Elemental"})
XRed == Spell(CostOf(<<0, R>>), {"Creature"}, {"Hydra"})
Knight == Spell(CostOf(<<W, B>>), {"Creature"}, {"Human", "Knight"})

(* a catalogue lists lands with the most copies of each a list may hold *)
SearchCatalogue ==
  <<<<Beacon, 3>>, <<Mountain, 1>>, <<Island, 2>>, <<Swamp, 1>>,
    <<BlastZone, 2>>, <<LotusField, 1>>, <<UnknownShores, 1>>>>
SimpleCatalogue ==
  <<<<Mountain, 3>>, <<Forest, 1>>, <<IzzetGuildgate, 1>>, <<GatewayPlaza, 1>>,
    <<PlazaOfHarmony, 1>>, <<TournamentGrounds, 1>>, <<CommandTower, 1>>,
    <<FabledPassage, 1>>>>

Copies(land, n) == [i \in 1..n |-> land]

RECURSIVE ListOf(_, _, _)
ListOf(cat, counts, i) ==
  IF i > Len(cat) THEN <<>>
  ELSE Copies(cat[i][1], counts[i]) \o ListOf(cat, counts, i + 1)

LandLists(cat) ==
  {ListOf(cat, counts, 1) :
     counts \in {f \in [1..Len(cat) -> 0..3] :
                   /\ \A i \in 1..Len(cat) : f[i] <= cat[i][2]
                   /\ SumSeq(f) <= MaxCastLands}}

CastInit ==
  /\ \/ /\ c_spell \in {Bolas, HybridWalker, TripleRed}
        /\ c_lands \in LandLists(SearchCatalogue)
        /\ c_X = 0
     \/ /\ c_spell \in {XRed, TripleRed, Knight}
        /\ c_lands \in LandLists(SimpleCatalogue)
        /\ c_X \in 0..MaxX
  /\ c_pc = "start" /\ c_local = None /\ c_queue = AdjustableHeap
  /\ c_visited = {} /\ c_result = None
  /\ OracleIdle /\ HeapIdle /\ McfIdle

CastNext == Preprocess \/ SearchStep \/ Exhausted

SpecCast == CastInit /\ [][CastNext]_vars

-----------------------------------------------------------------------------
(* Flow specification: a MinCostFlow is built by add_edge calls and         *)
(* add_flow(src, snk, flow_max) runs one round of its outer loop at a time. *)
(* A slot gives the endpoints of an add_edge call, the costs it may carry,   *)
(* its least capacity and whether a graph may leave the call out.           *)
EdgeSlots ==
  <<<<"src", "a", {0, 1}, 0, FALSE>>, <<"src", "b", {0, 1}, 1, FALSE>>,
    <<"a", "b", {0}, 1, TRUE>>, <<"a", "snk", {2}, 1, FALSE>>,
    <<"b", "snk", {0, 2}, 1, FALSE>>>>

Absent == [u |-> "", v |-> "", flow |-> 0, capacity |-> 0, cost |-> 0]

SlotEdges(i) ==
  (IF EdgeSlots[i][5] THEN {Absent} ELSE {}) \cup
  {Edge(EdgeSlots[i][1], EdgeSlots[i][2], capacity, cost) :
     capacity \in EdgeSlots[i][4]..MaxCap, cost \in EdgeSlots[i][3]}

RECURSIVE Present(_)
Present(choice) ==
  IF choice = <<>> THEN <<>>
  ELSE (IF Head(choice) = Absent THEN <<>> ELSE <<Head(choice)>>)
       \o Present(Tail(choice))

Graphs ==
  {Present(<<e1, e2, e3, e4, e5>>) :
     e1 \in SlotEdges(1), e2 \in SlotEdges(2), e3 \in SlotEdges(3),
     e4 \in SlotEdges(4), e5 \in SlotEdges(5)}

FlowMaxes == {None} \cup (0..MaxFlowMax)

McfInit ==
  /\ m_edges \in Graphs
  /\ m_potential = [v \in Vertices |-> 0]
  /\ \/ m_src = "src" /\ m_snk = "snk" /\ m_flow_max \in FlowMaxes
     \/ m_src = "src" /\ m_snk = "src" /\ m_flow_max = None
     \/ m_src = "snk" /\ m_snk = "a" /\ m_flow_max = 1
  /\ m_flow = 0 /\ m_flow_cost = 0 /\ m_dist = <<>> /\ m_pc = "loop"
  /\ OracleIdle /\ HeapIdle /\ CastIdle

McfNext == Augment \/ SinkUnreachable \/ CapReached

SpecMcf == McfInit /\ [][McfNext]_vars

(* Runs to completion: the interpreter keeps running add_flow while it has *)
(* a step to take.  The same calls as McfInit on the graphs of unit        *)
(* capacity, so that every augmentation moves one unit.                    *)
McfFairInit ==
  /\ McfInit
  /\ \A i \in DOMAIN m_edges : m_edges[i].capacity <= 1

SpecMcfFair == McfFairInit /\ [][McfNext]_vars /\ WF_vars(McfNext)

-----------------------------------------------------------------------------
(* Reference for the oracle: a brute-force bipartite matcher.  A land of   *)
(* colour set t pays a pip of colour set p iff the sets intersect or the   *)
(* pip is generic.                                                         *)
Pays(t, p) == p = ALL_COLORS_SET \/ BitAnd(t, p) # 0

RECURSIVE Matchable(_, _)
Matchable(c, l) ==
  IF \A s \in ColorSets : c[s] = 0 THEN TRUE
  ELSE LET p == CHOOSE s \in ColorSets :
                   c[s] > 0 /\ \A s2 \in ColorSets : c[s2] > 0 => s <= s2
       IN \E t \in ColorSets :
            /\ l[t] > 0
            /\ Pays(t, p)
            /\ Matchable(CounterAdd(c, p, -1), CounterAdd(l, t, -1))

(* C1: with offset 0 and no pip of the empty colour set, can_cast_simple   *)
(* answers yes exactly when every pip can be matched to a distinct land    *)
(* able to pay it.                                                         *)
C1_AgreesWithMatcher ==
  (o_offset = 0 /\ o_cost[0] = 0) => (o_ans <=> Matchable(o_cost, o_lands))

(* C6: for a fixed offset, adding a land never turns yes into no and       *)
(* adding a pip never turns no into yes.                                   *)
C6_Monotone ==
  [][ /\ ((\E s \in ColorSets : o_lands' = CounterAdd(o_lands, s, 1))
            => (o_ans => o_ans'))
      /\ ((\E s \in ColorSets : o_cost' = CounterAdd(o_cost, s, 1))
            => (o_ans' => o_ans)) ]_vars

C6_Witness ==
  /\ o_offset # 0
  /\ o_lands[0] >= 1
  /\ CounterTotal(o_lands) = MaxLands
  /\ CounterTotal(o_cost) >= 2
  /\ o_ans

-----------------------------------------------------------------------------
(* Heap claims.  The key of an element is key_func of its value. *)
ElemKey(H, ind) == key_func(H.obj[H.heap[ind + 1]].val)
ParentOf(ind) == (ind - 1) \div 2

HeapOrdered(H) ==
  \A ind \in 1..(Len(H.heap) - 1) :
    ~KeyLT(ElemKey(H, ind), ElemKey(H, ParentOf(ind)))

HandlesValid(H) ==
  /\ \A ind \in 0..(Len(H.heap) - 1) : H.obj[H.heap[ind + 1]].index = ind
  /\ \A k \in DOMAIN H.obj :
       /\ H.obj[k].index < Len(H.heap)
       /\ H.heap[H.obj[k].index + 1] = k

(* the multiset of the values held: value -> number of handles with it *)
ValBag(H) ==
  [v \in HeapVals |-> Cardinality({k \in DOMAIN H.obj : H.obj[k].val = v})]

IsMinOf(v, H) ==
  /\ \E k \in DOMAIN H.obj : H.obj[k].val = v
  /\ \A k \in DOMAIN H.obj : ~KeyLT(key_func(H.obj[k].val), key_func(v))

(* C7: after any sequence of push, pop, adjust_key and remove calls the    *)
(* parent's key is <= the key at every non-root position and every stored  *)
(* handle's index is its position in the array.                            *)
C7_HeapInvariant == HeapOrdered(hp) /\ HandlesValid(hp)

C7_Witness ==
  /\ h_op = "remove"
  /\ HeapLen(hp) = MaxHeap - 1
  /\ \E i, j \in DOMAIN hp.obj : hp.obj[i].val # hp.obj[j].val

(* C8: peek returns a minimum element and leaves the heap unchanged; pop   *)
(* returns a minimum element and removes exactly one occurrence of it; two *)
(* pops in a row return keys in non-decreasing order.                      *)
C8_PeekPopMin ==
  [][ /\ (h_op' = "peek") => (hp' = Cur /\ IsMinOf(h_ret', Cur))
      /\ (h_op' = "pop") =>
           /\ IsMinOf(h_ret', Cur)
           /\ ValBag(hp') = [ValBag(Cur) EXCEPT ![h_ret'] = @ - 1]
           /\ HeapLen(hp') = HeapLen(Cur) - 1
           /\ (h_op = "pop" => ~KeyLT(key_func(h_ret'), key_func(h_ret))) ]_vars

C8_Witness ==
  /\ h_op = "pop"
  /\ HeapLen(hp) >= 3
  /\ KeyLT(key_func(h_ret), key_func(peek(hp)))

(* C9: adjust_key(h, v) keeps the length, replaces h's value by v, leaves  *)
(* every other handle with its own value, and restores the heap order,     *)
(* whether v is smaller than, equal to or larger than the old value.       *)
C9_AdjustKey ==
  [][ (h_op' = "adjust_key") =>
        LET key == h_key'
            v == h_val'
        IN /\ HeapLen(hp') = HeapLen(Cur)
           /\ DOMAIN hp'.obj = DOMAIN Cur.obj
           /\ hp'.obj[key].val = v
           /\ \A k \in (DOMAIN Cur.obj) \ {key} : hp'.obj[k].val = Cur.obj[k].val
           /\ ValBag(hp') = [[ValBag(Cur) EXCEPT ![Cur.obj[key].val] = @ - 1]
                                EXCEPT ![v] = @ + 1]
           /\ HandlesValid(hp')
           /\ HeapOrdered(hp') ]_vars

(* an inner element was given the largest value and sank to a leaf *)
C9_Witness ==
  /\ h_op = "adjust_key"
  /\ HeapLen(hp) = MaxHeap
  /\ h_key = 2
  /\ hp.obj[h_key].index > 2
  /\ hp.obj[h_key].val = MaxVal - 1
  /\ hp.obj[hp.heap[1]].val = 0

(* C10: remove(h) deletes exactly the element h refers to: the length      *)
(* drops by one, every other element stays once with its value and a valid *)
(* handle, and the heap order holds.                                       *)
C10_Remove ==
  [][ (h_op' = "remove") =>
        LET key == h_key'
        IN /\ HeapLen(hp') = HeapLen(Cur) - 1
           /\ DOMAIN hp'.obj = (DOMAIN Cur.obj) \ {key}
           /\ \A k \in DOMAIN hp'.obj : hp'.obj[k].val = Cur.obj[k].val
           /\ HandlesValid(hp')
           /\ HeapOrdered(hp') ]_vars

(* an inner element was removed and the last element, moved into its      *)
(* place, rose above its new parent                                        *)
C10_Witness ==
  /\ h_op = "remove"
  /\ HeapLen(hp) >= 5
  /\ h_key \notin DOMAIN hp.obj
  /\ h_key \in 4..5
  /\ hp.heap[2] = HeapLen(hp) + 1

-----------------------------------------------------------------------------
(* Claims about can_cast *)
IsPlaneswalker(spell) == "Planeswalker" \in spell.types
CountLands(lands, types) ==
  Cardinality({i \in DOMAIN lands : lands[i].land_type \in types})
NoExotic(lands) == CountLands(lands, {"BEACON", "LOTUS", "FILTERING"}) = 0
SimpleOrBeacon(lands) ==
  \A i \in DOMAIN lands : lands[i].land_type \in SIMPLE_LAND_TYPES \cup {"BEACON"}

(* the colour set one land adds to the simple pool, Nothing when it adds   *)
(* none; a BEACON counts as beaconSet                                      *)
Nothing == 0 - 2
GateColors(lands) ==
  IF CountLands(lands, {"GATEWAY_PLAZA"}) > 0 THEN ALL_COLORS_SET
  ELSE CHOOSE s \in ColorSets :
         \A c \in Colors :
           HasBit(s, 2 ^ c) <=>
             \E i \in DOMAIN lands : /\ lands[i].land_type = "GUILDGATE"
                                     /\ HasBit(lands[i].color_identity_set, 2 ^ c)

Contribution(spell, lands, i, beaconSet) ==
  LET t == lands[i].land_type
  IN IF t \in SIMPLE_LAND_TYPES THEN lands[i].color_identity_set
     ELSE IF t \in {"GATEWAY_PLAZA", "COMMAND_TOWER"} THEN ALL_COLORS_SET
     ELSE IF t = "TOURNAMENT_GROUNDS"
     THEN IF spell.subtypes \cap {"Equipment", "Knight"} # {}
          THEN MARDU_COLOR_SET ELSE 0
     ELSE IF t = "PLAZA_OF_HARMONY" THEN GateColors(lands)
     ELSE IF t = "BEACON" THEN beaconSet
     ELSE Nothing

SimplePool(spell, lands, beaconSet) ==
  [s \in ColorSets |->
     Cardinality({i \in DOMAIN lands : Contribution(spell, lands, i, beaconSet) = s})]

(* the cost with the X slot removed and cost[0] * X generic pips added *)
XExpanded(cost, X) ==
  [s \in ColorSets |->
     IF s = 0 THEN 0
     ELSE IF s = ALL_COLORS_SET THEN cost[s] + cost[0] * X
     ELSE cost[s]]

(* the mode of each Beacon: 0 for one generic mana, i for the two colours  *)
(* of BeaconPairs[i] with a surcharge.  Beacons are alike, so the modes    *)
(* are listed in non-decreasing order.                                     *)
ModeChoices(n) ==
  {m \in [1..n -> 0..Len(BeaconPairs)] : \A i \in 1..(n - 1) : m[i] <= m[i + 1]}

Unfiltered(pool, modes) ==
  CounterAdd(pool, 0, Cardinality({i \in DOMAIN modes : modes[i] = 0}))

Filtered(modes) ==
  [s \in ColorSets |->
     Cardinality({i \in DOMAIN modes :
                    /\ modes[i] # 0
                    /\ s \in {2 ^ BeaconPairs[modes[i]][1], 2 ^ BeaconPairs[modes[i]][2]}})]

(* k surcharges are paid by k unfiltered mana and the pips by the rest *)
RECURSIVE PayableWith(_, _, _, _)
PayableWith(cost, unfiltered, filtered, k) ==
  IF k = 0
  THEN Matchable(cost, [s \in ColorSets |-> unfiltered[s] + filtered[s]])
  ELSE \E t \in ColorSets :
         /\ unfiltered[t] > 0
         /\ PayableWith(cost, CounterAdd(unfiltered, t, -1), filtered, k - 1)

ModeCastable(spell, lands) ==
  \E modes \in ModeChoices(CountLands(lands, {"BEACON"})) :
    PayableWith(spell.cost, Unfiltered(SimplePool(spell, lands, Nothing), modes),
                Filtered(modes),
                Cardinality({i \in DOMAIN modes : modes[i] # 0}))

(* C2: for a Planeswalker spell and a list of simple lands and Beacons,    *)
(* can_cast answers yes exactly when some choice of a mode per Beacon lets *)
(* every pip and every surcharge be paid by a distinct mana, surcharges by *)
(* unfiltered mana only; {U}{B}{B}{R} is castable with three Beacons, a    *)
(* Mountain and two Islands, and with three Beacons, a Blast Zone and a    *)
(* Swamp.                                                                  *)
C2_BeaconModes ==
  (c_pc = "done" /\ IsPlaneswalker(c_spell) /\ SimpleOrBeacon(c_lands)) =>
    /\ c_result <=> ModeCastable(c_spell, c_lands)
    /\ (/\ c_spell = Bolas
        /\ c_lands \in {<<Beacon, Beacon, Beacon, Mountain, Island, Island>>,
                        <<Beacon, Beacon, Beacon, Swamp, BlastZone>>})
       => c_result = TRUE

(* C3: {U}{B}{B}{R} with three Beacons, a Mountain and an Island is        *)
(* answered no.                                                            *)
C3_BolasOneShort ==
  (/\ c_pc = "done"
   /\ c_spell = Bolas
   /\ c_lands = <<Beacon, Beacon, Beacon, Mountain, Island>>)
  => c_result = FALSE

(* C4: without a BEACON, LOTUS or FILTERING land can_cast returns the      *)
(* oracle's answer, offset 0, for the X-expanded cost against the simple   *)
(* pool; {X}{R} with X = 2 is castable with three Mountains and not with   *)
(* two, {R}{R}{R} is castable with three Mountains and not with two        *)
(* Mountains and a Forest.                                                 *)
C4_SimpleLandsOnly ==
  (c_pc = "done" /\ NoExotic(c_lands)) =>
    /\ c_result = can_cast_simple(XExpanded(c_spell.cost, c_X),
                                  SimplePool(c_spell, c_lands, Nothing), 0)
    /\ (c_spell = XRed /\ c_X = 2 /\ c_lands = <<Mountain, Mountain, Mountain>>)
       => c_result = TRUE
    /\ (c_spell = XRed /\ c_X = 2 /\ c_lands = <<Mountain, Mountain>>)
       => c_result = FALSE
    /\ (c_spell = TripleRed /\ c_lands = <<Mountain, Mountain, Mountain>>)
       => c_result = TRUE
    /\ (c_spell = TripleRed /\ c_lands = <<Mountain, Mountain, Forest>>)
       => c_result = FALSE

C4_Witness ==
  /\ c_pc = "done"
  /\ c_spell = XRed /\ c_X = 2
  /\ c_lands = <<Mountain, Mountain, Mountain, PlazaOfHarmony, FabledPassage>>
  /\ c_result = TRUE

(* C5 as stated: preprocessing places every BEACON in other_lands,         *)
(* whether or not the spell is a Planeswalker.                             *)
C5_BeaconAlwaysExotic ==
  c_pc # "start" =>
    CountLands(c_local.other_lands, {"BEACON"}) = CountLands(c_lands, {"BEACON"})

(* C5: preprocessing places a BEACON in other_lands exactly when the spell *)
(* is a Planeswalker; for any other spell each BEACON is one colourless    *)
(* land of the simple pool.                                                *)
C5_BeaconExoticIffPlaneswalker ==
  c_pc # "start" =>
    IF IsPlaneswalker(c_spell)
    THEN /\ CountLands(c_local.other_lands, {"BEACON"}) = CountLands(c_lands, {"BEACON"})
         /\ c_local.simple_lands = SimplePool(c_spell, c_lands, Nothing)
    ELSE /\ CountLands(c_local.other_lands, {"BEACON"}) = 0
         /\ c_local.simple_lands = SimplePool(c_spell, c_lands, 0)

C5_Witness ==
  /\ c_pc = "done"
  /\ ~IsPlaneswalker(c_spell)
  /\ CountLands(c_lands, {"BEACON"}) = 3
  /\ c_local.simple_lands[0] = 3
  /\ c_local.other_lands = <<>>
  /\ c_result = FALSE

-----------------------------------------------------------------------------
(* Claims about the truth value of the heap *)

(* C11: bool(heap) is true exactly when the heap is empty, as the          *)
(* docstring of __bool__ says.                                             *)
C11_TrueIffEmpty ==
  h_op = "bool" => (h_ret <=> HeapLen(hp) = 0)

-----------------------------------------------------------------------------
(* Claims about add_flow *)
RECURSIVE SumOver(_, _)
SumOver(f, i) == IF i > Len(f) THEN 0 ELSE f[i] + SumOver(f, i + 1)

(* the graph before add_flow is called: the same edges with zero flow *)
ZeroFlow(edges) == [i \in 1..Len(edges) |-> [edges[i] EXCEPT !.flow = 0]]
ZeroPotential == [v \in Vertices |-> 0]

(* the maximum src-snk flow, as the least capacity of a cut *)
CutCapacity(edges, S) ==
  SumOver([i \in 1..Len(edges) |->
             IF edges[i].u \in S /\ edges[i].v \notin S
             THEN edges[i].capacity ELSE 0], 1)

MaxFlowRef(edges, src, snk) ==
  LET cuts == {CutCapacity(edges, S \cup {src}) : S \in SUBSET (Vertices \ {src, snk})}
  IN CHOOSE c \in cuts : \A d \in cuts : c <= d

(* C12: with src # snk, add_flow(src, snk, k) returns the flow value       *)
(* min(k, maximum flow), never more than k, and for k at least the maximum *)
(* flow it returns what the uncapped call returns.                         *)
C12_CappedFlow ==
  (m_pc = "done" /\ m_src # m_snk /\ m_flow_max # None) =>
    LET maxflow == MaxFlowRef(m_edges, m_src, m_snk)
    IN /\ m_flow = Min2(m_flow_max, maxflow)
       /\ m_flow <= m_flow_max
       /\ m_flow_max >= maxflow =>
            <<m_flow, m_flow_cost>> =
              add_flow(ZeroFlow(m_edges), ZeroPotential, m_src, m_snk, None)

C12_Witness ==
  /\ m_pc = "done" /\ m_src = "src" /\ m_snk = "snk"
  /\ m_flow_max = 3 /\ m_flow = 3
  /\ MaxFlowRef(m_edges, m_src, m_snk) = 4

(* the flows of a given value that the capacities allow, and the least     *)
(* cost of one                                                             *)
NetOut(edges, f, x) ==
  SumOver([i \in 1..Len(edges) |->
             (IF edges[i].u = x THEN f[i] ELSE 0)
             - (IF edges[i].v = x THEN f[i] ELSE 0)], 1)

FlowCost(edges, f) ==
  SumOver([i \in 1..Len(edges) |-> f[i] * edges[i].cost], 1)

FeasibleFlows(edges, src, snk, value) ==
  {f \in [1..Len(edges) -> 0..MaxCap] :
     /\ \A i \in 1..Len(edges) : f[i] <= edges[i].capacity
     /\ \A x \in Vertices \ {src, snk} : NetOut(edges, f, x) = 0
     /\ NetOut(edges, f, src) = value
     /\ NetOut(edges, f, snk) = 0 - value}

MinCostRef(edges, src, snk, value) ==
  LET costs == {FlowCost(edges, f) : f \in FeasibleFlows(edges, src, snk, value)}
  IN CHOOSE c \in costs : \A d \in costs : c <= d

EdgeFlows(edges) == [i \in 1..Len(edges) |-> edges[i].flow]

TestGraph ==
  <<Edge("src", "a", 1, 1), Edge("src", "b", 1, 0),
    Edge("a", "snk", 1, 2), Edge("b", "snk", 1, 2)>>

(* C13: with positive capacities the total cost add_flow returns is the    *)
(* sum of flow * cost over the edges and the least cost of a flow of the   *)
(* returned value; the four-edge graph of test.py with cap 3 gives (2, 5). *)
C13_MinCost ==
  (/\ m_pc = "done" /\ m_src # m_snk
   /\ \A i \in 1..Len(m_edges) : m_edges[i].capacity > 0) =>
    /\ m_flow_cost = FlowCost(m_edges, EdgeFlows(m_edges))
    /\ m_flow_cost = MinCostRef(m_edges, m_src, m_snk, m_flow)
    /\ (ZeroFlow(m_edges) = TestGraph /\ m_src = "src" /\ m_snk = "snk"
        /\ m_flow_max = 3)
       => <<m_flow, m_flow_cost>> = <<2, 5>>

(* C14: with src # snk, after every augmentation every edge has           *)
(* 0 <= flow <= capacity, the flow entering every vertex other than src    *)
(* and snk equals the flow leaving it, and the net flow out of src is the  *)
(* running total flow.                                                     *)
C14_FeasibleFlow ==
  (m_pc \in {"loop", "done"} /\ m_src # m_snk) =>
    /\ \A i \in 1..Len(m_edges) :
         0 <= m_edges[i].flow /\ m_edges[i].flow <= m_edges[i].capacity
    /\ \A x \in Vertices \ {m_src, m_snk} :
         NetOut(m_edges, EdgeFlows(m_edges), x) = 0
    /\ NetOut(m_edges, EdgeFlows(m_edges), m_src) = m_flow
    /\ NetOut(m_edges, EdgeFlows(m_edges), m_snk) = 0 - m_flow

C14_Witness ==
  /\ m_pc = "loop" /\ m_src = "src" /\ m_snk = "snk"
  /\ DOMAIN m_dist = Vertices
  /\ m_flow = 3
  /\ \E i \in 1..Len(m_edges) :
       /\ m_edges[i].u = "a" /\ m_edges[i].v = "b"
       /\ m_edges[i].flow = 1 /\ m_edges[i].capacity = 2

(* C15: add_flow terminates for any choice of src and snk, with or without *)
(* flow_max.                                                               *)
C15_Terminates == <>(m_pc = "done")

(* The reduced cost of edge e taken out of its endpoint u, under the       *)
(* potentials of the current state.                                        *)
ReducedCost(e, u) ==
  directed_edge(e, u)[3] + m_potential[u] - m_potential[directed_edge(e, u)[1]]

ResidualFrom(tails) ==
  {<<i, u>> \in (1..Len(m_edges)) \X tails :
     u \in {m_edges[i].u, m_edges[i].v} /\ directed_edge(m_edges[i], u)[2] > 0}

AfterAugmentation == m_pc = "loop" /\ m_dist # <<>>

(* C16 as stated: after each successful augmentation the reduced cost is   *)
(* non-negative in every direction of every edge that has residual         *)
(* capacity left, edges between vertices not reached from src included.    *)
C16_ReducedCostEverywhere ==
  AfterAugmentation =>
    \A p \in ResidualFrom(Vertices) : ReducedCost(m_edges[p[1]], p[2]) >= 0

(* C16: after each successful augmentation the reduced cost is             *)
(* non-negative in every direction u->v of every edge that has residual    *)
(* capacity left and whose tail u was reached from src in that round.      *)
C16_ReducedCostReached ==
  AfterAugmentation =>
    \A p \in ResidualFrom(DOMAIN m_dist) : ReducedCost(m_edges[p[1]], p[2]) >= 0

C16_Witness ==
  /\ AfterAugmentation /\ m_src = "src" /\ m_snk = "snk" /\ m_flow = 2
  /\ "a" \notin DOMAIN m_dist
  /\ \E p \in ResidualFrom({"a"}) : ReducedCost(m_edges[p[1]], p[2]) < 0
  /\ \E p \in ResidualFrom({"snk"}) : ReducedCost(m_edges[p[1]], p[2]) = 0

(* C17 as stated: over successive augmentations the flow stored on an edge *)
(* never decreases.                                                        *)
C17_FlowNeverDecreases ==
  [][\A i \in 1..Len(m_edges) : m_edges'[i].flow >= m_edges[i].flow]_vars

(* C17: an augmentation of amount f raises the running total by f, leaves  *)
(* every edge's flow within 0..capacity and changes it by f (edge taken    *)
(* from u to v), by -f (edge taken from v to u) or not at all.             *)
C17_FlowStep ==
  [][/\ m_flow' >= m_flow
     /\ \A i \in 1..Len(m_edges) :
          /\ m_edges'[i].flow - m_edges[i].flow
               \in {m_flow' - m_flow, 0, m_flow - m_flow'}
          /\ 0 <= m_edges'[i].flow
          /\ m_edges'[i].flow <= m_edges[i].capacity]_vars

(* the last augmentation reached a from b through the edge a-b, against    *)
(* its direction, and took back the flow that edge carried                 *)
C17_Witness ==
  /\ AfterAugmentation /\ m_src = "src" /\ m_snk = "snk" /\ m_flow = 2
  /\ DOMAIN m_dist = Vertices
  /\ \E i \in 1..Len(m_edges) :
       /\ m_edges[i].u = "a" /\ m_edges[i].v = "b"
       /\ m_dist["a"].edge = i
       /\ m_edges[m_dist["snk"].edge].u = "a"
       /\ m_edges[i].flow = 0 /\ m_edges[i].capacity = 1

(* The number of non-generic pips of the cost whose colour set contains    *)
(* colour c (0 = W .. 4 = G).                                              *)
PipsContaining(cost, c) ==
  SumOver([k \in 1..ALL_COLORS_SET |->
             IF k # ALL_COLORS_SET /\ (k \div (2 ^ c)) % 2 = 1 THEN cost[k] ELSE 0],
          1)

Searching == c_pc \notin {"idle", "start"}

(* C18: every SearchState created by the search has land_index at most     *)
(* the number of other_lands and, for every colour c, non-negative tallies *)
(* colors[c] and filter_colors[c] whose sum is at most the number of       *)
(* non-generic pips whose colour set contains c.                           *)
C18_StateBounds ==
  Searching =>
    /\ \A c \in 1..NumColors :
         c_local.max_colors[c] = PipsContaining(c_local.cost, c - 1)
    /\ \A id \in c_visited :
         /\ id[1] <= Len(c_local.other_lands)
         /\ \A c \in 1..NumColors :
              /\ 0 <= id[5][c]
              /\ 0 <= id[6][c]
              /\ id[5][c] + id[6][c] <= c_local.max_colors[c]

C18_Witness ==
  /\ c_pc = "search"
  /\ Len(c_local.other_lands) >= 2
  /\ \E id \in c_visited :
       /\ id[1] = Len(c_local.other_lands)
       /\ \E c \in 1..NumColors :
            /\ id[5][c] > 0 /\ id[6][c] > 0
            /\ id[5][c] + id[6][c] = c_local.max_colors[c]
       /\ id[2] + id[3] > SumSeq(id[5]) + SumSeq(id[6])

(* The states reachable from a set of states through the BEACON, LOTUS and *)
(* FILTERING transitions, gathered one land at a time: an order of         *)
(* exploration that does not look at huer_dist.                            *)
Successors(loc, frontier) ==
  UNION {{Adjacent(loc, s)[i] : i \in DOMAIN Adjacent(loc, s)} :
           s \in {t \in frontier : t.land_index < Len(loc.other_lands)}}

RECURSIVE ReachableFrom(_, _)
ReachableFrom(loc, frontier) ==
  IF frontier = {} THEN {}
  ELSE frontier \cup ReachableFrom(loc, Successors(loc, frontier))

Reachable(loc) ==
  ReachableFrom(loc, {SearchState(loc, NoTuple, NoTuple, 0, 0, 0, 0)})

SearchReturned == c_pc = "done" /\ c_visited # {}

(* C19: when can_cast gets past the fast paths, it returns yes exactly     *)
(* when some state reachable from the initial state through the BEACON,    *)
(* LOTUS and FILTERING transitions passes both feasibility checks, which   *)
(* does not depend on the order in which the queue pops.                   *)
C19_ExhaustiveSearch ==
  SearchReturned =>
    (c_result <=> \E s \in Reachable(c_local) : Solves(c_local, s))

C19_Witness ==
  /\ SearchReturned /\ c_result = TRUE
  /\ Cardinality(c_visited) >= 13
  /\ heap_bool(c_queue)
  /\ \E s \in Reachable(c_local) :
       ~Solves(c_local, s) /\ s.land_index = Len(c_local.other_lands)

(* the SearchStates waiting on the queue *)
Queued(H) == {H.obj[k].val : k \in DOMAIN H.obj}

(* what a step of the search pushed: the queued states that were not       *)
(* queued before it                                                        *)
Pushed == Queued(c_queue') \ Queued(c_queue)

(* A land offers at most MaxBranch states to _try_queue (a BEACON: one     *)
(* and the ten colour pairs).  A queued state of land_index k weighs       *)
(* (MaxBranch + 1) ^ (|other_lands| - k), more than all the states one     *)
(* transition can push in its place.                                       *)
MaxBranch == 1 + Len(BeaconPairs)

Weight(H) ==
  SumOver([i \in 1..Len(H.heap) |->
             (MaxBranch + 1) ^ (Len(c_local.other_lands)
                                  - H.obj[H.heap[i]].val.land_index)], 1)

(* C20: the search terminates: every round of the loop lowers the weight   *)
(* of the queue, a natural number.  A round pushes only states whose       *)
(* identity tuple was never pushed before, one state per identity; the     *)
(* state it pops is never queued again; and every state pushed by a        *)
(* transition has the land_index of the popped state plus one.             *)
C20_SearchSteps ==
  [][c_pc' \in {"search", "done"} =>
       /\ c_visited \subseteq c_visited'
       /\ \A s \in Pushed : ident(s) \notin c_visited /\ ident(s) \in c_visited'
       /\ Cardinality(c_visited') = Cardinality(c_visited) + Cardinality(Pushed)
       /\ Len(c_queue'.heap) = Cardinality(Queued(c_queue'))
       /\ \A s \in Queued(c_queue'), t \in Queued(c_queue') :
            ident(s) = ident(t) => s = t
       /\ c_pc = "search" /\ heap_bool(c_queue) =>
            /\ Len(c_queue'.heap) = Len(c_queue.heap) - 1 + Cardinality(Pushed)
            /\ ident(peek(c_queue)) \in c_visited
            /\ peek(c_queue) \notin Queued(c_queue')
            /\ \A s \in Pushed : s.land_index = peek(c_queue).land_index + 1
            /\ Cardinality(Pushed) <= MaxBranch
            /\ 0 <= Weight(c_queue') /\ Weight(c_queue') < Weight(c_queue)]_vars

(* a step that popped a state of land_index 1 and pushed at least five     *)
(* states, some of its successors being visited already                    *)
C20_Witness ==
  /\ c_pc = "search"
  /\ \E s \in Queued(c_queue) : s.land_index = 2
  /\ \E s \in Queued(c_queue) : s.land_index = 1
  /\ Cardinality(c_visited) > Len(c_queue.heap) + 1

(* can_cast returned at line 210: the simple lands do not pay the cost,    *)
(* there are other lands, and the oracle rejects the optimistic pool.      *)
OptimisticRejected ==
  /\ c_pc = "done" /\ c_visited = {}
  /\ c_local.other_lands # <<>>
  /\ ~can_cast_simple(c_local.cost, c_local.simple_lands, 0)

(* C21: whenever the oracle rejects the optimistic pool, no state          *)
(* reachable by the search passes both feasibility checks, so the answer   *)
(* no is the one the search would give without the pre-check.              *)
C21_SoundPrune ==
  OptimisticRejected =>
    /\ c_result = FALSE
    /\ \A s \in Reachable(c_local) : ~Solves(c_local, s)

C21_Witness ==
  /\ OptimisticRejected
  /\ Len(c_local.other_lands) >= 2
  /\ \E i \in DOMAIN c_local.other_lands :
       c_local.other_lands[i].land_type = "BEACON"
  /\ Cardinality(Reachable(c_local)) >= 13

(* the state the next round of the loop pops, line 285 *)
NextPopped == peek(c_queue)

GenericCountsOK ==
  /\ SumSeq(NextPopped.filter_colors) <= NextPopped.filter_total
  /\ SumSeq(NextPopped.colors) + SumSeq(NextPopped.filter_colors)
       <= NextPopped.total + NextPopped.filter_total
  /\ StateFilterLands(c_local, NextPopped)[0] >= 0
  /\ StateLands(c_local, NextPopped)[0] >= c_local.simple_lands[0]

AboutToPop == c_pc = "search" /\ heap_bool(c_queue)

(* C22 as stated: in every state popped by the search, for every cost,    *)
(* hybrid pips included, sum_c filter_colors[c] <= filter_total and       *)
(* sum_c (colors[c] + filter_colors[c]) <= total + filter_total, so the    *)
(* counts given to state_lands[0] and state_filter_lands[0] are not        *)
(* negative.                                                               *)
C22_NonNegativeGeneric == AboutToPop => GenericCountsOK

(* a cost without hybrid pips: every pip is of one colour or generic *)
NoHybridPips(cost) ==
  \A s \in ColorSets :
    cost[s] > 0 => s = ALL_COLORS_SET \/ \E c \in 0..(NumColors - 1) : s = 2 ^ c

(* C22: in every state popped by the search, for every cost without        *)
(* hybrid pips, sum_c filter_colors[c] <= filter_total and                 *)
(* sum_c (colors[c] + filter_colors[c]) <= total + filter_total, so the    *)
(* counts given to state_lands[0] and state_filter_lands[0] are not        *)
(* negative.                                                               *)
C22_NonNegativeWithoutHybrid ==
  (AboutToPop /\ NoHybridPips(c_local.cost)) => GenericCountsOK

(* a popped state of two filtered lands whose filter_total has reached     *)
(* total_cost and whose filtered colours use all of it                     *)
C22_Witness ==
  /\ AboutToPop /\ NoHybridPips(c_local.cost)
  /\ NextPopped.land_index >= 2
  /\ NextPopped.filter_cost >= 2
  /\ NextPopped.filter_total = c_local.total_cost
  /\ SumSeq(NextPopped.filter_colors) = NextPopped.filter_total

=============================================================================
